---- MODULE Spec2Model ----
(***************************************************************************)
(* Khmer Chess: the game session engine.                                   *)
(*                                                                         *)
(* The shared state is the "games" collection of the document store.  Each *)
(* signed-in user runs one client (the App component with its useGame hook  *)
(* and its ChessBoard).  A client reaches the store only through getDoc,    *)
(* addDoc and updateDoc, and learns of changes through onSnapshot.  Every   *)
(* await of the source is a point where other clients may run, so a handler *)
(* is one action per segment between awaits; the store applies one          *)
(* updateDoc at a time.  A notification hands the client the document as    *)
(* the store holds it then, so a client's gameState is always some earlier  *)
(* or the current state of the document, its own writes included.           *)
(*                                                                         *)
(* The rules engine (chess.js) is external.  A position is the sequence of  *)
(* the moves played from the starting position; a move carries the side     *)
(* that plays it and what it brings about (a quiet move, check, checkmate,  *)
(* or a draw by material).  A move is legal in a position when its side is  *)
(* the side to move there and the position allows further play.             *)
(*                                                                         *)
(* The two Gemini services (getBotMove, getCoachAnalysis) are external too: *)
(* a call stays in flight until the service answers, with some text, or     *)
(* fails.  The store may reject an updateDoc of makeMove.                   *)
(***************************************************************************)
EXTENDS Integers, Sequences, FiniteSets, TLC

\* ---------------------------------------------------------------- bounds
\* how many game documents addDoc may create
MaxGames == 2
\* how many moves may be made on the boards of all clients together
MaxMoves == 2
\* how many updateDoc calls of makeMove the store may reject
MaxFailures == 1
\* how many times clients may leave a session or log out
MaxExits == 1
\* how many documents a collection handed to the lobby query may hold
MaxDocs == 11

\* ------------------------------------------------------------- universe
\* the signed-in users; each runs one client
Users == {"u1", "u2", "u3"}
GameIds == 1..MaxGames
NoUser == "none"
\* the identity stored as black of an automated-opponent session
AI == "ai"
NoGame == 0

PENDING == "PENDING"
ACTIVE == "ACTIVE"
COMPLETED == "COMPLETED"
ABANDONED == "ABANDONED"
GameStatus == {PENDING, ACTIVE, COMPLETED, ABANDONED}

\* ------------------------------------------------------------ chess.js
STARTING_FEN == << >>

\* what a move brings about: nothing special, check, checkmate, or a draw
\* by material (after which play can go on, the position staying drawn)
Kinds == {"quiet", "check", "mate", "draw"}
Sides == {"w", "b"}
Moves == [side : Sides, kind : Kinds]
NoMove == [side |-> "-", kind |-> "-"]

\* game.turn(): the side to move of a position
SideToMove(fen) == IF Len(fen) % 2 = 0 THEN "w" ELSE "b"

\* game.isCheckmate()
isCheckmate(fen) == Len(fen) > 0 /\ fen[Len(fen)] = "mate"

\* game.isDraw()
isDraw(fen) == ~isCheckmate(fen) /\ \E i \in 1..Len(fen) : fen[i] = "draw"

\* game.isGameOver()
isGameOver(fen) == isCheckmate(fen) \/ isDraw(fen)

\* the moves game.move accepts in a position (it throws on any other)
Legal(fen, m) ==
  /\ m.side = SideToMove(fen)
  /\ ~isCheckmate(fen)
  /\ m.kind \in (IF isDraw(fen) THEN {"quiet"} ELSE Kinds)

\* game.move(m); game.fen()
ApplyMove(fen, m) == Append(fen, m.kind)

\* ------------------------------------------------------------ documents
\* a document of the "games" collection; exists = FALSE stands for an absent
\* document and for a null gameState.  createdAt is the store's time of the
\* addDoc (0 until the store has set it).
NoDoc ==
  [exists |-> FALSE, white |-> NoUser, black |-> NoUser, fen |-> STARTING_FEN,
   turn |-> "w", status |-> PENDING, winner |-> "none", lastMove |-> NoMove,
   isAI |-> FALSE, createdAt |-> 0]

\* the locals of a suspended handler.  storeStatus and offTurn are not locals
\* of the code: they record, for the properties, what the store held when
\* makeMove was called (its status, and whether the caller was a player of
\* the stored document whose colour was not the stored side to move).
NoOp ==
  [gid |-> NoGame, newFen |-> STARTING_FEN, turn |-> "w", winner |-> "none",
   move |-> NoMove, storeStatus |-> "-", offTurn |-> FALSE]

VARIABLES
  games,         \* the "games" collection: game id -> document (NoDoc: absent)
  activeGameId,  \* App state activeGameId of each client (NoGame: null)
  gameState,     \* useGame state gameState of each client (NoDoc: null)
  board,         \* ChessBoard state game of each client, as its position
  pc,            \* where each client's pending handler is suspended
  op,            \* the local variables of that suspended handler
  joinResult,    \* how each client's last joinGame call ended
  clicks,        \* the moves made on the boards so far
  isAnalyzing,   \* App state isAnalyzing of each client
  coachTip,      \* App state coachTip of each client
  coachPending,  \* the getCoachAnalysis calls of each client in flight
  botReq,        \* the getBotMove calls of each client in flight, each with
                 \* the game id and snapshot its triggerAIMove closed over
  botPc,         \* where each client's triggerAIMove is suspended in makeMove
  botOp,         \* the local variables of that suspended makeMove
  botResult,     \* how each client's last getBotMove call was dealt with
  failures,      \* the updateDoc calls the store has rejected so far
  exits,         \* the times clients have left a session so far
  subscription,  \* the game documents each client's useGame listens to
  signedIn,      \* whether each client has a user (App state user)
  openGames      \* App state openGames of each client, as game ids

vars == <<games, activeGameId, gameState, board, pc, op, joinResult, clicks,
          isAnalyzing, coachTip, coachPending, botReq, botPc, botOp, botResult,
          failures, exits, subscription, signedIn, openGames>>

\* the client state of sign-in and of the lobby
authVars == <<signedIn, openGames>>

\* the client state of the advisory and automated-opponent features
aiVars ==
  <<isAnalyzing, coachTip, coachPending, botReq, botPc, botOp, botResult>>

\* ------------------------------------------------------------- helpers
\* makeMove writing the turn it found
Flip_stuck(t) == t

\* makeMove: currentTurn === 'w' ? 'b' : 'w'
Flip(t) == IF t = "w" THEN "b" ELSE "w"

\* the fen prop App hands to ChessBoard: gameState?.fen || STARTING_FEN
FenProp(gs) == IF gs.exists THEN gs.fen ELSE STARTING_FEN

\* App: playerColor, computed at render from the local snapshot
playerColor(u) ==
  IF gameState[u].exists /\ gameState[u].black = u THEN "b" ELSE "w"

\* App: isMyTurn, the activeTurn prop of ChessBoard
isMyTurn(u) ==
  /\ (IF gameState[u].exists THEN gameState[u].turn ELSE "w") = playerColor(u)
  /\ gameState[u].exists
  /\ gameState[u].status = ACTIVE

\* handleMove without the legality check: every move goes on to makeMove
moveAccepted_unchecked(fen, m) == TRUE

\* handleMove: gameLogic.move(move) on the snapshot's position yields a
\* result (it throws on an illegal move, and the catch drops the move)
moveAccepted(fen, m) == Legal(fen, m)

\* makeMove: the turn check against the local snapshot
TurnCheck(gs, u) ==
  LET isWhite == gs.white = u
      isBlack == gs.black = u
  IN ~((gs.turn = "w" /\ ~isWhite) \/ (gs.turn = "b" /\ ~isBlack))

\* makeMove naming the side to move after the mate instead of the mover
WinnerOf_swapped(fen, currentTurn) ==
  IF isCheckmate(fen) THEN (IF currentTurn = "w" THEN "black" ELSE "white")
  ELSE "draw"

\* makeMove: the winner written with status COMPLETED
WinnerOf(fen, currentTurn) ==
  IF isCheckmate(fen) THEN (IF currentTurn = "w" THEN "white" ELSE "black")
  ELSE "draw"

\* joinGame without its third check
JoinCheck_noSelfCheck(snap, u) ==
  IF ~snap.exists THEN "not found"
  ELSE IF snap.status # PENDING THEN "not joinable"
  ELSE "ok"

\* joinGame: the checks on the document read by getDoc; "ok" when none throws
JoinCheck(snap, u) ==
  IF ~snap.exists THEN "not found"
  ELSE IF snap.status # PENDING THEN "not joinable"
  ELSE IF snap.white = u THEN "self join"
  ELSE "ok"

\* the colour a user plays in a stored document ("-": none)
ColorIn(doc, u) ==
  IF doc.white = u THEN "w" ELSE IF doc.black = u THEN "b" ELSE "-"

\* createGame storing the session as already started
NewGame_started(u) ==
  [exists |-> TRUE, white |-> u, black |-> NoUser,
   fen |-> STARTING_FEN, turn |-> "w", status |-> ACTIVE,
   winner |-> "none", lastMove |-> NoMove, isAI |-> FALSE, createdAt |-> 0]

\* createGame: the document handed to addDoc
NewGame(u) ==
  [exists |-> TRUE, white |-> u, black |-> NoUser,
   fen |-> STARTING_FEN, turn |-> "w", status |-> PENDING,
   winner |-> "none", lastMove |-> NoMove, isAI |-> FALSE, createdAt |-> 0]

\* createAIGame: the document handed to addDoc
NewAIGame(u) ==
  [exists |-> TRUE, white |-> u, black |-> AI,
   fen |-> STARTING_FEN, turn |-> "w", status |-> ACTIVE,
   winner |-> "none", lastMove |-> NoMove, isAI |-> TRUE, createdAt |-> 0]

\* serverTimestamp() as the store resolves it at an addDoc: the store's
\* clock, which ticks with every document created
serverTimestamp(docs) ==
  Cardinality({g \in DOMAIN docs : docs[g].exists}) + 1

\* useGame holding on to the listener of the previous game id
useGameEffect_leaking(subs, gameId) ==
  IF gameId = NoGame THEN subs ELSE subs \cup {gameId}

\* useGame's effect on [gameId]: the cleanup of its previous run calls
\* unsubscribe(); with a game id it then registers the listener of that
\* document
useGameEffect(subs, gameId) ==
  IF gameId = NoGame THEN {} ELSE {gameId}

\* the listener keeping the winner of the snapshot held before
setGameState_merging(prev, data) ==
  IF prev.exists THEN [data EXCEPT !.winner = prev.winner] ELSE data

\* the listener of useGame: setGameState(docSnap.data())
setGameState(prev, data) == data

\* ----------------------------------------------------------------- lobby
\* limit(10) of qLobby
LobbyLimit == 10

RECURSIVE newestFirst(_, _)
\* orderBy("createdAt", "desc") on the documents with the ids given
newestFirst(docs, ids) ==
  IF ids = {} THEN << >>
  ELSE LET g == CHOOSE g \in ids :
                  \A h \in ids : docs[h].createdAt <= docs[g].createdAt
       IN <<g>> \o newestFirst(docs, ids \ {g})

\* limit(n) on a query result
limit(seq, n) == SubSeq(seq, 1, IF Len(seq) < n THEN Len(seq) ELSE n)

\* qLobby without its where clause
qLobby_unfiltered(docs) ==
  limit(newestFirst(docs, {g \in DOMAIN docs : docs[g].exists}), LobbyLimit)

\* qLobby: where("status", "==", PENDING), orderBy("createdAt", "desc"),
\* limit(10), as the ids of the documents the store answers with
qLobby(docs) ==
  limit(newestFirst(docs, {g \in DOMAIN docs :
                             docs[g].exists /\ docs[g].status = PENDING}),
        LobbyLimit)

\* ---------------------------------------------------------- geminiService
\* what the generateContent call of getCoachAnalysis may do: answer with a
\* text, answer with an empty text, or throw
CoachReplies == {"tip", "", "throws"}
\* the initial coachTip, and the one handleCreateAIBattle sets
CoachInitial == "ready"
CoachAIBattle == "ai battle"
\* the two static messages of getCoachAnalysis
CoachDefault == "keep focusing"
CoachFallback == "engine is analyzing"
\* an exception leaving an awaited call
Raised == "raised"

\* getCoachAnalysis letting the exception of generateContent through
getCoachAnalysis_raising(reply) ==
  IF reply = "throws" THEN Raised
  ELSE IF reply = "" THEN CoachDefault
  ELSE reply

\* getCoachAnalysis: response.text || default, the fallback in the catch
getCoachAnalysis(reply) ==
  IF reply = "throws" THEN CoachFallback
  ELSE IF reply = "" THEN CoachDefault
  ELSE reply

\* what the generateContent call of getBotMove may do: answer with the text
\* of a move (legal or not in the position asked about), answer with an
\* empty text, or throw
BotReplies ==
  {[move |-> m, outcome |-> "text"] : m \in Moves}
    \cup {[move |-> NoMove, outcome |-> "empty"],
          [move |-> NoMove, outcome |-> "throws"]}
RaisedMove == [side |-> "!", kind |-> "!"]

\* getBotMove letting the exception of generateContent through
getBotMove_raising(reply) ==
  IF reply.outcome = "throws" THEN RaisedMove ELSE reply.move

\* getBotMove: text?.trim() || "", and "" in the catch (NoMove stands for "")
getBotMove(reply) ==
  IF reply.outcome = "throws" THEN NoMove ELSE reply.move

\* -------------------------------------------------- automated opponent
\* the dependency list of the triggerAIMove effect: it runs after a render
\* in which gameState?.fen, gameState?.turn or gameState?.isAI changed
AIDepsChanged(old, new) ==
  \/ ~old.exists
  \/ old.fen # new.fen
  \/ old.turn # new.turn
  \/ old.isAI # new.isAI

\* the condition of triggerAIMove
triggerAIMove(gs, analyzing) ==
  /\ gs.exists
  /\ gs.status = ACTIVE
  /\ gs.isAI
  /\ gs.turn = "b"
  /\ ~analyzing

\* triggerAIMove after getBotMove returned str, for the request r: where it
\* goes next ("empty": the string is empty, "invalid": gameLogic.move
\* rejects it, and both go on to setIsAnalyzing(false); "coach": makeMove
\* returned at once and getCoachAnalysis is awaited; "status", "move":
\* suspended in makeMove before that updateDoc; "raised": left by an exception
\* no catch holds)
botMoveNext(u, r, str) ==
  IF str = RaisedMove THEN "raised"
  ELSE IF str = NoMove THEN "empty"
  ELSE IF ~Legal(r.snap.fen, str) THEN "invalid"
  ELSE IF r.gid = NoGame \/ ~r.snap.exists THEN "coach"
  ELSE IF ~TurnCheck(r.snap, u) THEN "coach"
  ELSE IF isGameOver(ApplyMove(r.snap.fen, str)) THEN "status"
  ELSE "move"

\* makeMove's locals when triggerAIMove's call of it suspends at an updateDoc
botMakeMove(u, r, m) ==
  LET gs == r.snap
      stored == games[r.gid]
  IN [gid |-> r.gid,
      newFen |-> ApplyMove(gs.fen, m),
      turn |-> Flip(gs.turn),
      winner |-> WinnerOf(ApplyMove(gs.fen, m), gs.turn),
      move |-> m,
      storeStatus |-> stored.status,
      offTurn |-> ColorIn(stored, u) # "-" /\ ColorIn(stored, u) # stored.turn]

\* the two callers of makeMove: handleMove and triggerAIMove
Callers == {"board", "bot"}
PcOf(u, h) == IF h = "bot" THEN botPc[u] ELSE pc[u]
OpOf(u, h) == IF h = "bot" THEN botOp[u] ELSE op[u]

\* the caller h of client u goes on to position p with locals o
Resume(u, h, p, o) ==
  IF h = "bot"
  THEN /\ botPc' = [botPc EXCEPT ![u] = p]
       /\ botOp' = [botOp EXCEPT ![u] = o]
       /\ UNCHANGED <<pc, op>>
  ELSE /\ pc' = [pc EXCEPT ![u] = p]
       /\ op' = [op EXCEPT ![u] = o]
       /\ UNCHANGED <<botPc, botOp>>

\* ----------------------------------------------------------------- Init
\* the clients after construction
InitClients ==
  /\ activeGameId = [u \in Users |-> NoGame]
  /\ gameState = [u \in Users |-> NoDoc]
  /\ board = [u \in Users |-> STARTING_FEN]
  /\ pc = [u \in Users |-> "idle"]
  /\ op = [u \in Users |-> NoOp]
  /\ joinResult = [u \in Users |-> "none"]
  /\ clicks = 0
  /\ isAnalyzing = [u \in Users |-> FALSE]
  /\ coachTip = [u \in Users |-> CoachInitial]
  /\ coachPending = [u \in Users |-> 0]
  /\ botReq = [u \in Users |-> << >>]
  /\ botPc = [u \in Users |-> "idle"]
  /\ botOp = [u \in Users |-> NoOp]
  /\ botResult = [u \in Users |-> "none"]
  /\ failures = 0
  /\ exits = 0
  /\ subscription = [u \in Users |-> {}]
  /\ signedIn = [u \in Users |-> TRUE]
  /\ openGames = [u \in Users |-> << >>]

\* an empty collection, and the clients after construction
Init ==
  /\ games = [g \in GameIds |-> NoDoc]
  /\ InitClients

\* the statuses of a collection's documents that are no longer open
Closed == {ACTIVE, COMPLETED}

\* a session another user created, as it stands at a status, with black
\* joined once it is no longer PENDING
SessionAt(st, t) ==
  [NewGame("u2") EXCEPT !.status = st,
                        !.black = IF st = PENDING THEN NoUser ELSE "u3",
                        !.createdAt = t]

\* A collection as other users' sessions have left it: each document open or
\* not, those not open all ACTIVE or all COMPLETED, the ids in the order of
\* creation or in the reverse order; and the clients after construction.
InitQuery ==
  /\ \E open \in SUBSET (1..MaxDocs), st \in Closed, rev \in BOOLEAN :
       games = [g \in 1..MaxDocs |->
                  SessionAt(IF g \in open THEN PENDING ELSE st,
                            IF rev THEN MaxDocs + 1 - g ELSE g)]
  /\ InitClients

\* -------------------------------------------------------------- actions

\* handleCreateGame -> createGame: addDoc stores the new document under a
\* fresh id, then setActiveGameId(gid) binds the client to it.
createGame(u) ==
  /\ signedIn[u]
  /\ pc[u] = "idle"
  /\ activeGameId[u] = NoGame
  /\ \E g \in GameIds :
       /\ ~games[g].exists
       /\ \A h \in GameIds : h < g => games[h].exists
       /\ games' = [games EXCEPT ![g] =
            [NewGame(u) EXCEPT !.createdAt = serverTimestamp(games)]]
       /\ activeGameId' = [activeGameId EXCEPT ![u] = g]
       /\ subscription' = [subscription EXCEPT ![u] =
            useGameEffect(subscription[u], g)]
  /\ UNCHANGED <<gameState, board, pc, op, joinResult, clicks, aiVars,
                 failures, exits, authVars>>

\* handleCreateAIBattle -> createAIGame: as createGame, with the document of
\* an automated-opponent session; then setCoachTip.
createAIGame(u) ==
  /\ signedIn[u]
  /\ pc[u] = "idle"
  /\ activeGameId[u] = NoGame
  /\ \E g \in GameIds :
       /\ ~games[g].exists
       /\ \A h \in GameIds : h < g => games[h].exists
       /\ games' = [games EXCEPT ![g] =
            [NewAIGame(u) EXCEPT !.createdAt = serverTimestamp(games)]]
       /\ activeGameId' = [activeGameId EXCEPT ![u] = g]
       /\ subscription' = [subscription EXCEPT ![u] =
            useGameEffect(subscription[u], g)]
  /\ coachTip' = [coachTip EXCEPT ![u] = CoachAIBattle]
  /\ UNCHANGED <<gameState, board, pc, op, joinResult, clicks, isAnalyzing,
                 coachPending, botReq, botPc, botOp, botResult, failures, exits,
                 authVars>>

\* handleJoinGame -> joinGame up to its updateDoc: getDoc reads the document
\* and the three checks run on what was read.  A failed check throws, and
\* handleJoinGame reports the message; otherwise the write is issued.
joinGameRead(u, g) ==
  /\ signedIn[u]
  /\ pc[u] = "idle"
  /\ activeGameId[u] = NoGame
  /\ LET r == JoinCheck(games[g], u) IN
       IF r = "ok"
       THEN /\ pc' = [pc EXCEPT ![u] = "join"]
            /\ op' = [op EXCEPT ![u] = [NoOp EXCEPT !.gid = g]]
            /\ joinResult' = [joinResult EXCEPT ![u] = "none"]
       ELSE /\ joinResult' = [joinResult EXCEPT ![u] = r]
            /\ UNCHANGED <<pc, op>>
  /\ UNCHANGED <<games, activeGameId, gameState, board, clicks, aiVars,
                 failures, exits, subscription, authVars>>

\* joinGame from its updateDoc on: the store applies {black, status: ACTIVE}
\* to whatever the document holds by now, joinGame returns the id and
\* handleJoinGame binds the client to the game.
joinGameWrite(u) ==
  /\ pc[u] = "join"
  /\ LET g == op[u].gid IN
       /\ games' = [games EXCEPT ![g].black = u, ![g].status = ACTIVE]
       /\ activeGameId' = [activeGameId EXCEPT ![u] = g]
       /\ subscription' = [subscription EXCEPT ![u] =
            useGameEffect(subscription[u], g)]
  /\ joinResult' = [joinResult EXCEPT ![u] = "joined"]
  /\ pc' = [pc EXCEPT ![u] = "idle"]
  /\ op' = [op EXCEPT ![u] = NoOp]
  /\ UNCHANGED <<gameState, board, clicks, aiVars, failures, exits, authVars>>

\* The exit buttons of the game view: setActiveGameId(null).  useGame drops
\* the subscription and keeps gameState; a handler suspended at an await
\* goes on with the game id it was called with.
exitGame(u) ==
  /\ activeGameId[u] # NoGame
  /\ exits < MaxExits
  /\ exits' = exits + 1
  /\ activeGameId' = [activeGameId EXCEPT ![u] = NoGame]
  /\ subscription' = [subscription EXCEPT ![u] =
       useGameEffect(subscription[u], NoGame)]
  /\ UNCHANGED <<games, gameState, board, pc, op, joinResult, clicks, aiVars,
                 failures, authVars>>

\* handleLogout: setActiveGameId(null) and firebaseSignOut, after which
\* onAuthStateChanged hands the client a null user.  The App component stays
\* mounted, so its other state is kept.
handleLogout(u) ==
  /\ signedIn[u]
  /\ exits < MaxExits
  /\ exits' = exits + 1
  /\ signedIn' = [signedIn EXCEPT ![u] = FALSE]
  /\ activeGameId' = [activeGameId EXCEPT ![u] = NoGame]
  /\ subscription' = [subscription EXCEPT ![u] =
       useGameEffect(subscription[u], NoGame)]
  /\ UNCHANGED <<games, gameState, board, pc, op, joinResult, clicks, aiVars,
                 failures, openGames>>

\* The user signs in again: onAuthStateChanged hands the client the user.
onAuthStateChanged(u) ==
  /\ ~signedIn[u]
  /\ signedIn' = [signedIn EXCEPT ![u] = TRUE]
  /\ UNCHANGED <<games, activeGameId, gameState, board, pc, op, joinResult,
                 clicks, aiVars, failures, exits, subscription, openGames>>

\* The listener of qLobby: the store answers the query on the collection as
\* it is now, and setOpenGames replaces the listing.
onLobbySnapshot(u) ==
  /\ openGames[u] # qLobby(games)
  /\ openGames' = [openGames EXCEPT ![u] = qLobby(games)]
  /\ UNCHANGED <<games, activeGameId, gameState, board, pc, op, joinResult,
                 clicks, aiVars, failures, exits, subscription, signedIn>>

\* useGame's onSnapshot callback: the store notifies a listener of the
\* client, which replaces gameState by the document; ChessBoard's effect on
\* the fen prop replaces its local game when the prop changed and differs
\* from it; the triggerAIMove effect runs when one of its dependencies
\* changed and, its condition holding, sets isAnalyzing and calls getBotMove.
onSnapshot(u) ==
  \E g \in subscription[u] :
    /\ games[g].exists
    /\ gameState[u] # games[g]
    /\ LET snap == setGameState(gameState[u], games[g])
           fire == /\ AIDepsChanged(gameState[u], snap)
                   /\ triggerAIMove(snap, isAnalyzing[u])
       IN
         /\ gameState' = [gameState EXCEPT ![u] = snap]
         /\ board' = [board EXCEPT ![u] =
              IF FenProp(snap) # FenProp(gameState[u]) /\ FenProp(snap) # board[u]
              THEN FenProp(snap) ELSE board[u]]
         /\ isAnalyzing' = [isAnalyzing EXCEPT ![u] = fire \/ isAnalyzing[u]]
         /\ botReq' = [botReq EXCEPT ![u] =
              IF fire
              THEN Append(botReq[u], [gid |-> activeGameId[u], snap |-> snap])
              ELSE botReq[u]]
    /\ UNCHANGED <<games, activeGameId, pc, op, joinResult, clicks, coachTip,
                   coachPending, botPc, botOp, botResult, failures, exits,
                   subscription, authVars>>

\* Leaving the play tab and returning mounts a new ChessBoard, whose local
\* game starts from the fen prop.
remountBoard(u) ==
  /\ board[u] # FenProp(gameState[u])
  /\ board' = [board EXCEPT ![u] = FenProp(gameState[u])]
  /\ UNCHANGED <<games, activeGameId, gameState, pc, op, joinResult, clicks,
                 aiVars, failures, exits, subscription, authVars>>

\* handleMove, then makeMove up to its first updateDoc, for the move the
\* board made: where the handler is suspended next ("idle": it returned
\* without calling makeMove; "coach": makeMove returned at once on its turn
\* check and getCoachAnalysis is awaited).
handleMove(u, m) ==
  LET gs == gameState[u] IN
    IF activeGameId[u] = NoGame \/ ~gs.exists THEN "idle"
    ELSE IF ~moveAccepted(gs.fen, m) THEN "idle"
    ELSE IF ~TurnCheck(gs, u) THEN "coach"
    ELSE IF isGameOver(ApplyMove(gs.fen, m)) THEN "status"
    ELSE "move"

\* makeMove's locals when it suspends at an updateDoc
makeMove(u, m) ==
  LET gs == gameState[u]
      stored == games[activeGameId[u]]
  IN [gid |-> activeGameId[u],
      newFen |-> ApplyMove(gs.fen, m),
      turn |-> Flip(gs.turn),
      winner |-> WinnerOf(ApplyMove(gs.fen, m), gs.turn),
      move |-> m,
      storeStatus |-> stored.status,
      offTurn |-> ColorIn(stored, u) # "-" /\ ColorIn(stored, u) # stored.turn]

\* handleMove and triggerAIMove after makeMove returned to the caller h:
\* handleMove sets isAnalyzing; both call getCoachAnalysis.
CoachCalled(u, h) ==
  /\ isAnalyzing' = [isAnalyzing EXCEPT ![u] = (h = "board") \/ isAnalyzing[u]]
  /\ coachPending' = [coachPending EXCEPT ![u] = coachPending[u] + 1]

\* ChessBoard.handleSquareClick completing a move on the local game (only
\* with activeTurn, and only a move legal there), then onMove -> handleMove
\* -> makeMove up to the first await.  A client runs one move handler at a
\* time.
handleSquareClick(u, m) ==
  /\ pc[u] = "idle"
  /\ activeGameId[u] # NoGame
  /\ isMyTurn(u)
  /\ clicks < MaxMoves
  /\ Legal(board[u], m)
  /\ clicks' = clicks + 1
  /\ board' = [board EXCEPT ![u] = ApplyMove(board[u], m)]
  /\ LET next == handleMove(u, m) IN
       IF next \in {"idle", "coach"}
       THEN /\ UNCHANGED <<pc, op>>
            /\ IF next = "coach" THEN CoachCalled(u, "board")
               ELSE UNCHANGED <<isAnalyzing, coachPending>>
       ELSE /\ pc' = [pc EXCEPT ![u] = next]
            /\ op' = [op EXCEPT ![u] = makeMove(u, m)]
            /\ UNCHANGED <<isAnalyzing, coachPending>>
  /\ UNCHANGED <<games, activeGameId, gameState, joinResult, coachTip, botReq,
                 botPc, botOp, botResult, failures, exits, subscription,
                 authVars>>

\* makeMove's first updateDoc, issued when the move ends the game:
\* {status: COMPLETED, winner}
makeMoveStatusWrite(u, h) ==
  /\ PcOf(u, h) = "status"
  /\ games' = [games EXCEPT ![OpOf(u, h).gid].status = COMPLETED,
                            ![OpOf(u, h).gid].winner = OpOf(u, h).winner]
  /\ Resume(u, h, "move", OpOf(u, h))
  /\ UNCHANGED <<activeGameId, gameState, board, joinResult, clicks,
                 isAnalyzing, coachTip, coachPending, botReq, botResult,
                 failures, exits, subscription, authVars>>

\* makeMove's first updateDoc rejected by the store: the exception leaves
\* makeMove and is caught by the caller, handleMove (which returns) or
\* triggerAIMove (which goes on to setIsAnalyzing(false)).
makeMoveStatusWriteFails(u, h) ==
  /\ PcOf(u, h) = "status"
  /\ failures < MaxFailures
  /\ failures' = failures + 1
  /\ Resume(u, h, "idle", NoOp)
  /\ isAnalyzing' = [isAnalyzing EXCEPT ![u] = (h # "bot") /\ isAnalyzing[u]]
  /\ UNCHANGED <<games, activeGameId, gameState, board, joinResult, clicks,
                 coachTip, coachPending, botReq, botResult, exits,
                 subscription, authVars>>

\* makeMove's second updateDoc: the store applies {fen, turn, lastMove,
\* lastUpdated}.  The caller's await has yet to resolve.
makeMoveWrite(u, h) ==
  /\ PcOf(u, h) = "move"
  /\ games' = [games EXCEPT ![OpOf(u, h).gid].fen = OpOf(u, h).newFen,
                            ![OpOf(u, h).gid].turn = OpOf(u, h).turn,
                            ![OpOf(u, h).gid].lastMove = OpOf(u, h).move]
  /\ Resume(u, h, "written", OpOf(u, h))
  /\ UNCHANGED <<activeGameId, gameState, board, joinResult, clicks,
                 isAnalyzing, coachTip, coachPending, botReq, botResult,
                 failures, exits, subscription, authVars>>

\* The await of the second updateDoc resolves: makeMove returns and its
\* caller goes on to getCoachAnalysis.
makeMoveReturns(u, h) ==
  /\ PcOf(u, h) = "written"
  /\ Resume(u, h, "idle", NoOp)
  /\ CoachCalled(u, h)
  /\ UNCHANGED <<games, activeGameId, gameState, board, joinResult, clicks,
                 coachTip, botReq, botResult, failures, exits, subscription,
                 authVars>>

\* makeMove's second updateDoc rejected by the store.  Called from
\* handleMove, makeMove catches and logs the error and returns, and
\* handleMove goes on to getCoachAnalysis; called from triggerAIMove, the
\* exception is caught there, which goes on to setIsAnalyzing(false).
makeMoveWriteFails(u, h) ==
  /\ PcOf(u, h) = "move"
  /\ failures < MaxFailures
  /\ failures' = failures + 1
  /\ Resume(u, h, "idle", NoOp)
  /\ IF h = "bot"
     THEN /\ isAnalyzing' = [isAnalyzing EXCEPT ![u] = FALSE]
          /\ UNCHANGED coachPending
     ELSE CoachCalled(u, h)
  /\ UNCHANGED <<games, activeGameId, gameState, board, joinResult, clicks,
                 coachTip, botReq, botResult, exits, subscription, authVars>>

\* A getCoachAnalysis call returns: setCoachTip(tip), setIsAnalyzing(false).
\* An exception leaving the call would skip both.
coachReturns(u, reply) ==
  /\ coachPending[u] > 0
  /\ coachPending' = [coachPending EXCEPT ![u] = coachPending[u] - 1]
  /\ LET tip == getCoachAnalysis(reply) IN
       IF tip = Raised
       THEN UNCHANGED <<coachTip, isAnalyzing>>
       ELSE /\ coachTip' = [coachTip EXCEPT ![u] = tip]
            /\ isAnalyzing' = [isAnalyzing EXCEPT ![u] = FALSE]
  /\ UNCHANGED <<games, activeGameId, gameState, board, pc, op, joinResult,
                 clicks, botReq, botPc, botOp, botResult, failures, exits,
                 subscription, authVars>>

\* The i-th getBotMove call in flight returns, and triggerAIMove goes on
\* with the snapshot and the makeMove of the render that started it, up to
\* its next await.
botMoveReturns(u, i, reply) ==
  /\ i \in 1..Len(botReq[u])
  /\ botPc[u] = "idle"
  /\ LET r == botReq[u][i]
         str == getBotMove(reply)
         next == botMoveNext(u, r, str)
     IN
       /\ botReq' = [botReq EXCEPT ![u] =
            SubSeq(botReq[u], 1, i - 1) \o SubSeq(botReq[u], i + 1, Len(botReq[u]))]
       /\ IF next \in {"status", "move"}
          THEN /\ botPc' = [botPc EXCEPT ![u] = next]
               /\ botOp' = [botOp EXCEPT ![u] = botMakeMove(u, r, str)]
          ELSE UNCHANGED <<botPc, botOp>>
       /\ botResult' = [botResult EXCEPT ![u] = next]
       /\ IF next \in {"empty", "invalid"}
          THEN /\ isAnalyzing' = [isAnalyzing EXCEPT ![u] = FALSE]
               /\ UNCHANGED coachPending
          ELSE IF next = "coach"
          THEN CoachCalled(u, "bot")
          ELSE UNCHANGED <<isAnalyzing, coachPending>>
  /\ UNCHANGED <<games, activeGameId, gameState, board, pc, op, joinResult,
                 clicks, coachTip, failures, exits, subscription, authVars>>

\* ------------------------------------------------------- specifications
\* Sessions between users: creation, the join handshake, play, up to the
\* moment a client leaves its session, the store rejects a write or an
\* advisory call returns.
Next ==
  \/ \E u \in Users : createGame(u)
  \/ \E u \in Users, g \in GameIds : joinGameRead(u, g)
  \/ \E u \in Users : joinGameWrite(u)
  \/ \E u \in Users : onSnapshot(u)
  \/ \E u \in Users : remountBoard(u)
  \/ \E u \in Users, m \in Moves : handleSquareClick(u, m)
  \/ \E u \in Users, h \in Callers : makeMoveStatusWrite(u, h)
  \/ \E u \in Users, h \in Callers : makeMoveWrite(u, h)
  \/ \E u \in Users, h \in Callers : makeMoveReturns(u, h)

Spec == Init /\ [][Next]_vars

\* The registry: creation, the join handshake, and clients leaving their
\* sessions, before any move is made.
NextLobby ==
  \/ \E u \in Users : createGame(u)
  \/ \E u \in Users, g \in GameIds : joinGameRead(u, g)
  \/ \E u \in Users : joinGameWrite(u)
  \/ \E u \in Users : exitGame(u)
  \/ \E u \in Users : handleLogout(u)
  \/ \E u \in Users : onAuthStateChanged(u)
  \/ \E u \in Users : onSnapshot(u)

SpecLobby == Init /\ [][NextLobby]_vars

\* Sessions of different clients share no document and no client state, so
\* in the automated-opponent specification one client runs them, leaving a
\* session to start the next.
Pilots == {"u1"}

\* Automated-opponent sessions, with the two services answering or failing
\* and the store rejecting writes.
NextAI ==
  \/ \E u \in Pilots : createAIGame(u)
  \/ \E u \in Pilots : exitGame(u)
  \/ \E u \in Pilots : onSnapshot(u)
  \/ \E u \in Pilots : remountBoard(u)
  \/ \E u \in Pilots, m \in Moves : handleSquareClick(u, m)
  \/ \E u \in Pilots, h \in Callers : makeMoveStatusWrite(u, h)
  \/ \E u \in Pilots, h \in Callers : makeMoveStatusWriteFails(u, h)
  \/ \E u \in Pilots, h \in Callers : makeMoveWrite(u, h)
  \/ \E u \in Pilots, h \in Callers : makeMoveReturns(u, h)
  \/ \E u \in Pilots, h \in Callers : makeMoveWriteFails(u, h)
  \/ \E u \in Pilots, reply \in CoachReplies : coachReturns(u, reply)
  \/ \E u \in Pilots, i \in 1..MaxMoves, reply \in BotReplies :
       botMoveReturns(u, i, reply)

SpecAI == Init /\ [][NextAI]_vars

\* The lobby of one client over a collection of other users' sessions: the
\* listing is notified, and the client joins a session.
NextQuery ==
  \/ \E u \in Pilots : onLobbySnapshot(u)
  \/ \E u \in Pilots, g \in 1..MaxDocs : joinGameRead(u, g)
  \/ \E u \in Pilots : joinGameWrite(u)

SpecQuery == InitQuery /\ [][NextQuery]_vars

\* Two users suffice for a session and for leaving it for another.
Rivals == {"u1", "u2"}

\* Sessions between two users, with clients leaving a session for another.
NextSwitch ==
  \/ \E u \in Rivals : createGame(u)
  \/ \E u \in Rivals, g \in GameIds : joinGameRead(u, g)
  \/ \E u \in Rivals : joinGameWrite(u)
  \/ \E u \in Rivals : exitGame(u)
  \/ \E u \in Rivals : onSnapshot(u)
  \/ \E u \in Rivals : remountBoard(u)
  \/ \E u \in Rivals, m \in Moves : handleSquareClick(u, m)
  \/ \E u \in Rivals, h \in Callers : makeMoveStatusWrite(u, h)
  \/ \E u \in Rivals, h \in Callers : makeMoveWrite(u, h)
  \/ \E u \in Rivals, h \in Callers : makeMoveReturns(u, h)

SpecSwitch == Init /\ [][NextSwitch]_vars

\* ------------------------------------------------------------ properties

\* steps of the store, as the properties see them
StatusWritten(u) == pc[u] = "status" /\ pc'[u] = "move"
MoveWritten(u) == pc[u] = "move" /\ pc'[u] = "written"
Clicked(u, m) ==
  /\ clicks' = clicks + 1
  /\ Legal(board[u], m)
  /\ board'[u] = ApplyMove(board[u], m)
  /\ board'[u] # board[u]

StatusRank(st) ==
  IF st = PENDING THEN 0 ELSE IF st = ACTIVE THEN 1 ELSE 2

ColorName(side) == IF side = "w" THEN "white" ELSE "black"

\* C1: of the joinGame calls on one PENDING session at most one succeeds
\* (the others fail as not joinable), so black is assigned once.
C1_OneJoinSucceeds ==
  \A g \in GameIds :
    Cardinality({u \in Users : joinResult[u] = "joined" /\ activeGameId[u] = g}) <= 1

\* C2: every move write leaves a side to move other than the one it found,
\* so the stored turn alternates from one move write to the next.
C2_TurnAlternates ==
  [][\A u \in Users :
       MoveWritten(u) => games'[op[u].gid].turn # games[op[u].gid].turn]_vars

\* C3: a makeMove call by a player whose colour was not the stored side to
\* move changes neither the stored fen, nor turn, nor lastMove.
C3_OffTurnNoChange ==
  [][\A u \in Users :
       (MoveWritten(u) /\ op[u].offTurn) =>
         LET g == op[u].gid IN
           /\ games'[g].fen = games[g].fen
           /\ games'[g].turn = games[g].turn
           /\ games'[g].lastMove = games[g].lastMove]_vars

\* C4: no write moves the stored status backwards along
\* PENDING -> ACTIVE -> COMPLETED.
C4_StatusMonotone ==
  [][\A g \in GameIds :
       StatusRank(games'[g].status) >= StatusRank(games[g].status)]_vars

\* C5: a makeMove call made when the stored status was COMPLETED changes
\* neither the stored position nor the stored status.
C5_CompletedIsFinal ==
  [][\A u \in Users :
       ((MoveWritten(u) \/ StatusWritten(u)) /\ op[u].storeStatus = COMPLETED) =>
         LET g == op[u].gid IN
           /\ games'[g].fen = games[g].fen
           /\ games'[g].status = games[g].status]_vars

\* C6: in every stored document, winner is present exactly when status is
\* COMPLETED.
C6_WinnerIffCompleted ==
  \A g \in GameIds :
    games[g].exists => (games[g].winner # "none" <=> games[g].status = COMPLETED)

\* C7: the write that completes a session stores as winner the colour of the
\* side that played the move if the resulting position is checkmate, and
\* "draw" for every other terminal position.
C7_WinnerIsMover ==
  [][\A u \in Users :
       StatusWritten(u) =>
         LET g == op[u].gid IN
           /\ games'[g].status = COMPLETED
           /\ isGameOver(op[u].newFen)
           /\ games'[g].winner =
                IF isCheckmate(op[u].newFen) THEN ColorName(op[u].move.side)
                ELSE "draw"]_vars

\* C7 witness: a session completed by a checkmating move of black, with
\* black stored as the winner.
C7_Witness ==
  \E g \in GameIds :
    /\ games[g].status = COMPLETED
    /\ isCheckmate(games[g].fen)
    /\ games[g].lastMove.side = "b"
    /\ games[g].winner = "black"

\* C8: the terminal position, status COMPLETED and the winner are stored in
\* one update: the store never holds COMPLETED with a position that is not
\* terminal, nor a terminal position with a status that is not COMPLETED.
C8_TerminalInOneUpdate ==
  \A g \in GameIds :
    games[g].exists => (games[g].status = COMPLETED <=> isGameOver(games[g].fen))

\* C9: a move submitted while the stored status is not ACTIVE changes no
\* field of the session document.
C9_NotActiveNoOp ==
  [][\A u \in Users :
       ((MoveWritten(u) \/ StatusWritten(u)) /\ op[u].storeStatus # ACTIVE) =>
         games'[op[u].gid] = games[op[u].gid]]_vars

\* C10: a move made on the board that is illegal in the position of the
\* client's snapshot issues no write: the handler is not suspended at an
\* updateDoc and the store is unchanged.
C10_IllegalMoveNoWrite ==
  [][\A u \in Users, m \in Moves :
       (Clicked(u, m) /\ gameState[u].exists /\ ~Legal(gameState[u].fen, m)) =>
         /\ games' = games
         /\ pc'[u] = "idle"]_vars

\* C10 witness: a client's board is two moves ahead of its snapshot with no
\* write pending: the second move was made on the board but was illegal in
\* the snapshot's position, and was dropped.
C10_Witness ==
  \E u \in Users :
    /\ gameState[u].exists
    /\ pc[u] = "idle"
    /\ Len(board[u]) = Len(gameState[u].fen) + 2
    /\ SubSeq(board[u], 1, Len(gameState[u].fen)) = gameState[u].fen

\* C11: black is assigned at most once per session, and in the same write
\* that takes the session from PENDING to ACTIVE: no write changes a black
\* that is set, and after every write a session between users has no black
\* exactly when its status is PENDING.
C11_BlackAssignedOnce ==
  [][\A g \in GameIds :
       /\ games[g].black # NoUser => games'[g].black = games[g].black
       /\ (games'[g].exists /\ ~games'[g].isAI) =>
            (games'[g].black = NoUser <=> games'[g].status = PENDING)]_vars

\* the errors joinGame throws
JoinErrors == {"not found", "not joinable", "self join"}

\* C12: joinGame issues its write only for a session that exists, is PENDING
\* and whose white is another user; in every other case it ends with the
\* error of that case, the store unchanged and the caller bound to no
\* session.
C12_JoinErrorsNoWrite ==
  [][\A u \in Users :
       /\ (pc[u] = "idle" /\ pc'[u] = "join") =>
            LET g == op'[u].gid IN
              /\ games[g].exists
              /\ games[g].status = PENDING
              /\ games[g].white # u
       /\ (joinResult'[u] \in JoinErrors /\ joinResult'[u] # joinResult[u]) =>
            /\ games' = games
            /\ pc'[u] = "idle"
            /\ activeGameId'[u] = NoGame
            /\ \E g \in GameIds :
                 CASE joinResult'[u] = "not found" -> ~games[g].exists
                   [] joinResult'[u] = "not joinable" ->
                        games[g].exists /\ games[g].status # PENDING
                   [] OTHER ->
                        /\ games[g].exists
                        /\ games[g].status = PENDING
                        /\ games[g].white = u]_vars

\* C12 witness: a user's joinGame call on the PENDING session the user
\* created has ended as a self join, the session still PENDING without black.
C12_Witness ==
  \E u \in Users, g \in GameIds :
    /\ joinResult[u] = "self join"
    /\ activeGameId[u] = NoGame
    /\ games[g].exists
    /\ games[g].white = u
    /\ games[g].status = PENDING
    /\ games[g].black = NoUser

\* C13: createGame stores a new session with the creator as white, no
\* black, the starting position with white to move and status PENDING, and
\* hands its id to the creator, who is bound to it.
C13_CreateGame ==
  [][\A g \in GameIds :
       (~games[g].exists /\ games'[g].exists /\ ~games'[g].isAI) =>
         \E u \in Users :
           /\ games'[g].white = u
           /\ games'[g].black = NoUser
           /\ games'[g].fen = STARTING_FEN
           /\ games'[g].turn = "w"
           /\ games'[g].status = PENDING
           /\ games'[g].winner = "none"
           /\ activeGameId[u] = NoGame
           /\ activeGameId'[u] = g
           /\ \A h \in GameIds \ {g} : games'[h] = games[h]]_vars

\* C13 witness: a session as createGame stored it, its creator bound to it.
C13_Witness ==
  \E u \in Users, g \in GameIds :
    /\ games[g].exists
    /\ games[g].white = u
    /\ games[g].black = NoUser
    /\ games[g].fen = STARTING_FEN
    /\ games[g].turn = "w"
    /\ games[g].status = PENDING
    /\ activeGameId[u] = g

\* the getBotMove calls in flight for session g
BotRequests(g) ==
  {<<u, i>> \in Users \X (1..MaxMoves) :
     i <= Len(botReq[u]) /\ botReq[u][i].gid = g}

\* a step in which client u calls getBotMove
BotRequested(u) == Len(botReq'[u]) = Len(botReq[u]) + 1

\* a step in which client u takes in a snapshot
Observed(u) == gameState'[u] # gameState[u]

\* C14: at most one getBotMove call is in flight per automated-opponent
\* session.
C14_SingleFlight ==
  \A g \in GameIds : Cardinality(BotRequests(g)) <= 1

\* C15: a client that takes in a snapshot calls getBotMove exactly when the
\* snapshot is ACTIVE, of an automated-opponent session, has black to move,
\* and no getBotMove call is in flight for the session.
C15_TriggerIff ==
  [][\A u \in Users :
       Observed(u) =>
         (BotRequested(u) <=>
            /\ gameState'[u].status = ACTIVE
            /\ gameState'[u].isAI
            /\ gameState'[u].turn = "b"
            /\ BotRequests(activeGameId[u]) = {})]_vars

\* C16: when getBotMove returns a move that is legal in the position it was
\* asked about, makeMove issues the write of that move: the position after
\* the move, with the turn handed back to white.
C16_BotMoveApplied ==
  [][\A u \in Users, i \in 1..MaxMoves, reply \in BotReplies :
       (/\ i <= Len(botReq[u])
        /\ Len(botReq'[u]) < Len(botReq[u])
        /\ reply.outcome = "text"
        /\ Legal(botReq[u][i].snap.fen, reply.move)
        /\ botMoveReturns(u, i, reply)) =>
         /\ botPc'[u] \in {"status", "move"}
         /\ botOp'[u].gid = botReq[u][i].gid
         /\ botOp'[u].newFen = ApplyMove(botReq[u][i].snap.fen, reply.move)
         /\ botOp'[u].turn = "w"]_vars

\* a reply of the move service that yields no legal move
BadReply(r, reply) ==
  reply.outcome # "text" \/ ~Legal(r.snap.fen, reply.move)

\* C17: when the move service fails, answers with an empty text or with a
\* move that is illegal in the position asked about, triggerAIMove runs to
\* its end (isAnalyzing is reset) with the store unchanged and without a
\* write, an advisory call or another getBotMove call; and getBotMove is only
\* ever called on taking in a snapshot that changed a dependency.
C17_BadBotMoveDropped ==
  [][\A u \in Users :
       /\ \A i \in 1..MaxMoves, reply \in BotReplies :
            (/\ i <= Len(botReq[u])
             /\ Len(botReq'[u]) < Len(botReq[u])
             /\ BadReply(botReq[u][i], reply)
             /\ botMoveReturns(u, i, reply)) =>
              /\ games' = games
              /\ botPc'[u] = "idle"
              /\ pc'[u] = pc[u]
              /\ coachPending'[u] = coachPending[u]
              /\ Len(botReq'[u]) = Len(botReq[u]) - 1
              /\ ~isAnalyzing'[u]
       /\ BotRequested(u) =>
            /\ Observed(u)
            /\ AIDepsChanged(gameState[u], gameState'[u])]_vars

\* C17 witness: the move service answered with a move that is illegal in
\* the position; the move was dropped, the session is ACTIVE with black
\* still to move, and no getBotMove call is in flight.
C17_Witness ==
  \E u \in Users :
    /\ botResult[u] = "invalid"
    /\ botReq[u] = << >>
    /\ ~isAnalyzing[u]
    /\ activeGameId[u] # NoGame
    /\ games[activeGameId[u]].status = ACTIVE
    /\ games[activeGameId[u]].turn = "b"
    /\ gameState[u] = games[activeGameId[u]]

\* C18: an advisory call in flight gates neither play nor the automated
\* opponent: a move made on the board that passes makeMove's checks is
\* written, and a client taking in a snapshot of an automated-opponent
\* session with black to move, no getBotMove call being in flight, calls
\* getBotMove.
C18_AdvisoryNeverGates ==
  [][\A u \in Users :
       coachPending[u] > 0 =>
         /\ \A m \in Moves :
              (/\ Clicked(u, m)
               /\ gameState[u].exists
               /\ Legal(gameState[u].fen, m)
               /\ TurnCheck(gameState[u], u)) => pc'[u] \in {"status", "move"}
         /\ (/\ Observed(u)
             /\ gameState'[u].status = ACTIVE
             /\ gameState'[u].isAI
             /\ gameState'[u].turn = "b"
             /\ AIDepsChanged(gameState[u], gameState'[u])
             /\ BotRequests(activeGameId[u]) = {}) => BotRequested(u)]_vars

\* C19: when the advisory service fails, getCoachAnalysis returns its static
\* fallback message: the handler sets it as the tip and resets isAnalyzing,
\* and no document of the store changes.
C19_AdvisoryFailureIsLocal ==
  [][\A u \in Users :
       (coachPending'[u] < coachPending[u] /\ coachReturns(u, "throws")) =>
         /\ games' = games
         /\ coachTip'[u] = CoachFallback
         /\ ~isAnalyzing'[u]]_vars

\* C19 witness: a client shows the fallback message after a move it wrote.
C19_Witness ==
  \E u \in Users :
    /\ coachTip[u] = CoachFallback
    /\ activeGameId[u] # NoGame
    /\ games[activeGameId[u]].fen # STARTING_FEN

\* C20: getCoachAnalysis is called only by a handler whose makeMove call
\* has had its move write applied by the store.
C20_AdvisoryAfterWrite ==
  [][\A u \in Users :
       coachPending'[u] > coachPending[u] =>
         \E h \in Callers : PcOf(u, h) = "written"]_vars

\* C21: after every change notification for the bound session the client's
\* gameState equals the notified document in its entirety: no field of an
\* earlier snapshot is retained or merged.
C21_SnapshotReplacesView ==
  [][\A u \in Users :
       Observed(u) => \E g \in subscription[u] : gameState'[u] = games[g]]_vars

\* C21 witness: a client that held a snapshot of its session in play now
\* holds the completed session as the store has it, winner included.
C21_Witness ==
  \E u \in Users :
    /\ activeGameId[u] # NoGame
    /\ gameState[u] = games[activeGameId[u]]
    /\ gameState[u].status = COMPLETED
    /\ gameState[u].winner # "none"
    /\ gameState[u].fen # STARTING_FEN

\* C22: a client listens to at most one game document, that of the session
\* it is bound to; once it has left the session, bound another or logged
\* out, it no longer listens to the previous one.
C22_OneSubscription ==
  [][\A u \in Users :
       /\ Cardinality(subscription'[u]) <= 1
       /\ subscription'[u] = {activeGameId'[u]} \ {NoGame}
       /\ activeGameId'[u] # activeGameId[u] =>
            activeGameId[u] \notin subscription'[u]
       /\ (signedIn[u] /\ ~signedIn'[u]) => subscription'[u] = {}]_vars

\* C22 witness: a client logged out of a session whose snapshot it holds,
\* and listens to no document.
C22_Witness ==
  \E u \in Users :
    /\ ~signedIn[u]
    /\ gameState[u].exists
    /\ subscription[u] = {}

\* the sessions of a listing
Listed(l) == {l[i] : i \in 1..Len(l)}

\* a step in which client u's lobby listing is replaced
LobbyNotified(u) == openGames'[u] # openGames[u]

\* C23: a notified lobby listing holds only PENDING sessions, at most
\* LobbyLimit of them, newest first by creation time, and they are the
\* newest PENDING sessions of the collection; so a session that was joined
\* or completed is not in it.
C23_OpenListing ==
  [][\A u \in Users :
       LobbyNotified(u) =>
         LET l == openGames'[u] IN
           /\ \A i \in 1..Len(l) :
                games[l[i]].exists /\ games[l[i]].status = PENDING
           /\ Len(l) <= LobbyLimit
           /\ \A i, j \in 1..Len(l) :
                i < j => games[l[i]].createdAt > games[l[j]].createdAt
           /\ \A g \in DOMAIN games :
                (games[g].exists /\ games[g].status = PENDING
                   /\ g \notin Listed(l)) =>
                  /\ Len(l) = LobbyLimit
                  /\ \A i \in 1..Len(l) :
                       games[g].createdAt < games[l[i]].createdAt]_vars

\* C23 witness: a client joined a session, and its listing, notified since,
\* is full and no longer holds that session.
C23_Witness ==
  \E u \in Users :
    /\ joinResult[u] = "joined"
    /\ openGames[u] = qLobby(games)
    /\ Len(openGames[u]) = LobbyLimit
    /\ activeGameId[u] \notin Listed(openGames[u])

\* a step in which the store rejects a write of the makeMove called by h
WriteFailed(u, h) ==
  PcOf(u, h) \in {"status", "move"} /\ failures' = failures + 1

\* C24: when the store rejects a write of makeMove, the session is left as
\* the call found it: its status is the one stored when makeMove was called,
\* and it is COMPLETED only with a terminal position.
C24_FailedWriteNoEffect ==
  [][\A u \in Users, h \in Callers :
       WriteFailed(u, h) =>
         LET g == OpOf(u, h).gid IN
           /\ games'[g].status = OpOf(u, h).storeStatus
           /\ games'[g].status = COMPLETED => isGameOver(games'[g].fen)]_vars

\* C25: in every state of the store, the turn of a session is the side to
\* move of its position.
C25_TurnMatchesPosition ==
  \A g \in GameIds :
    games[g].exists => games[g].turn = SideToMove(games[g].fen)

\* C25 witness: a session two moves into play, white to move again.
C25_Witness ==
  \E g \in GameIds :
    /\ games[g].exists
    /\ Len(games[g].fen) = 2
    /\ games[g].turn = "w"
    /\ games[g].lastMove.side = "b"

\* C26: after every change notification the board shows the position of the
\* snapshot.
C26_BoardShowsSnapshot ==
  [][\A u \in Users :
       Observed(u) => board'[u] = FenProp(gameState'[u])]_vars

\* a step in which client u's handleMove calls makeMove and a write is issued
MoveSubmitted(u) == pc[u] = "idle" /\ pc'[u] \in {"status", "move"}

\* C27: the snapshot from which makeMove computes what it writes is a
\* snapshot of the session it writes to, also after the client left one
\* session and bound another.
C27_ViewIsOfBoundSession ==
  [][\A u \in Users :
       MoveSubmitted(u) =>
         gameState[u].createdAt = games[op'[u].gid].createdAt]_vars

\* C28: every move write stores the position that one legal move yields
\* from the position stored at the moment of the write.
C28_NoLostUpdate ==
  [][\A u \in Users :
       MoveWritten(u) =>
         LET g == op[u].gid IN
           \E m \in Moves :
             /\ Legal(games[g].fen, m)
             /\ games'[g].fen = ApplyMove(games[g].fen, m)]_vars

\* C29: whenever the stored position is terminal the stored status is
\* COMPLETED.
C29_TerminalIsCompleted ==
  \A g \in GameIds :
    (games[g].exists /\ isGameOver(games[g].fen)) => games[g].status = COMPLETED

\* C30: a write of makeMove issued by a user who is neither white nor black
\* of the stored session changes nothing of the session.
C30_OutsiderCannotWrite ==
  [][\A u \in Users :
       ((MoveWritten(u) \/ StatusWritten(u))
          /\ ColorIn(games[op[u].gid], u) = "-") =>
         games'[op[u].gid] = games[op[u].gid]]_vars

====
